---- MODULE Spec2Model ----
(***************************************************************************)
(* Model of src/main.py: the Zendawa FAQ chatbot backend.                  *)
(*                                                                         *)
(*  - module import parses documents/zendawa_faq.txt into faq_pairs, fits  *)
(*    a TfidfVectorizer on the questions and keeps question_vectors;       *)
(*  - POST /chat checks the AWS credentials, retrieves the FAQ entry       *)
(*    closest to the last message, composes the Bedrock message list,      *)
(*    invokes the model and extracts the reply.                            *)
(*                                                                         *)
(* Python strings are sequences of one-character strings, so that strip,   *)
(* split, slicing, lower-casing and tokenization are computed as the code  *)
(* computes them.  An optional value (None or a string) is a sequence of   *)
(* zero or one element.  TF-IDF weights are integers (idf in rounded       *)
(* tenths) and similarities are compared as exact fractions: the rounding  *)
(* of float64 arithmetic is not modelled.                                  *)
(***************************************************************************)
EXTENDS Integers, Sequences, FiniteSets, TLC

VARIABLES
    file,              \* content of documents/zendawa_faq.txt: <<>> when it cannot be opened, else <<text>>
    pc,                \* "import" (module not yet imported), "serving", "failed" (import raised)
    faq_pairs,         \* main.py:47
    questions,         \* main.py:55
    answers,           \* main.py:56
    vectorizer,        \* main.py:57: <<>> before fit, else <<[vocabulary, idf]>>
    question_vectors,  \* main.py:58
    credentials,       \* what boto3.Session().get_credentials() finds now: "none" or "present"
    reqs               \* one record per chat request slot: the locals of chat()

vars == <<file, pc, faq_pairs, questions, answers, vectorizer, question_vectors,
          credentials, reqs>>

index == <<questions, answers, vectorizer, question_vectors>>

(***************************************************************************)
(* Bounds of the model.                                                    *)
(***************************************************************************)
MaxBlocks == 2   \* blocks in a corpus file
MaxHist == 2     \* messages in a caller history
MaxReq == 2      \* chat requests in flight

(***************************************************************************)
(* Python str primitives.                                                  *)
(***************************************************************************)
SetMin(S) == CHOOSE x \in S : \A y \in S : x <= y

SetMax(S) == CHOOSE x \in S : \A y \in S : x >= y

Range(s) == {s[i] : i \in 1..Len(s)}

UpperLetters ==
    <<"A", "B", "C", "D", "E", "F", "G", "H", "I", "J", "K", "L", "M",
      "N", "O", "P", "Q", "R", "S", "T", "U", "V", "W", "X", "Y", "Z">>

LowerLetters ==
    <<"a", "b", "c", "d", "e", "f", "g", "h", "i", "j", "k", "l", "m",
      "n", "o", "p", "q", "r", "s", "t", "u", "v", "w", "x", "y", "z">>

Digits == {"0", "1", "2", "3", "4", "5", "6", "7", "8", "9"}

\* str.isspace for one character
IsSpace(c) == c \in {" ", "\n", "\t", "\r"}

\* str.lower for one character
LowerChar(c) ==
    IF \E i \in 1..26 : UpperLetters[i] = c
    THEN LowerLetters[CHOOSE i \in 1..26 : UpperLetters[i] = c]
    ELSE c

\* s.lower()
Lower(s) == [i \in 1..Len(s) |-> LowerChar(s[i])]

\* s.strip(): leading and trailing whitespace removed
Strip(s) ==
    LET keep == {i \in 1..Len(s) : ~IsSpace(s[i])}
    IN  IF keep = {} THEN <<>> ELSE SubSeq(s, SetMin(keep), SetMax(keep))

\* s.startswith(p)
StartsWith(s, p) == Len(s) >= Len(p) /\ SubSeq(s, 1, Len(p)) = p

\* s[k:] for k >= 0
SliceFrom(s, k) == SubSeq(s, k + 1, Len(s))

\* s.find(sep) as a 1-based position, 0 when absent
Find(s, sep) ==
    LET at == {i \in 1..(Len(s) - Len(sep) + 1) : SubSeq(s, i, i + Len(sep) - 1) = sep}
    IN  IF at = {} THEN 0 ELSE SetMin(at)

RECURSIVE Split(_, _)
\* s.split(sep) with an explicit separator: left to right, empty pieces kept
Split(s, sep) ==
    LET at == Find(s, sep)
    IN  IF at = 0
        THEN <<s>>
        ELSE <<SubSeq(s, 1, at - 1)>> \o Split(SliceFrom(s, at + Len(sep) - 1), sep)

RECURSIVE Join(_, _)
\* sep.join(parts)
Join(parts, sep) ==
    IF parts = <<>> THEN <<>>
    ELSE IF Len(parts) = 1 THEN parts[1]
    ELSE parts[1] \o sep \o Join(Tail(parts), sep)

(***************************************************************************)
(* Corpus loader, main.py:44-56.                                           *)
(***************************************************************************)
NL == <<"\n">>

BlankLine == <<"\n", "\n">>

\* main.py:45: f.read().strip().split("\n\n")
RawFaqBlocks(text) == Split(Strip(text), BlankLine)

\* main.py:49: block.strip().split("\n")
BlockLines(block) == Split(Strip(block), NL)

\* main.py:50-51: next((line[3:] for line in lines if line.lower().startswith(p)), None)
FirstAfterPrefix(lines, p) ==
    LET hit == {i \in 1..Len(lines) : StartsWith(Lower(lines[i]), p)}
    IN  IF hit = {} THEN <<>> ELSE <<SliceFrom(lines[SetMin(hit)], 3)>>

\* truthiness of an Optional[str]: neither None nor ""
Truthy(opt) == opt # <<>> /\ opt[1] # <<>>

\* main.py:49-53: the pairs one block appends to faq_pairs (none or one)
BlockPairs(block) ==
    LET lines == BlockLines(block)
        q == FirstAfterPrefix(lines, <<"q", ":">>)
        a == FirstAfterPrefix(lines, <<"a", ":">>)
    IN  IF Truthy(q) /\ Truthy(a)
        THEN <<[q |-> Strip(q[1]), a |-> Strip(a[1])]>>
        ELSE <<>>

RECURSIVE ParsePairs(_)
\* main.py:47-53: the loop over raw_faq_blocks
ParsePairs(blocks) ==
    IF blocks = <<>> THEN <<>>
    ELSE BlockPairs(Head(blocks)) \o ParsePairs(Tail(blocks))

\* main.py:55
Questions(pairs) == [i \in 1..Len(pairs) |-> pairs[i].q]

\* main.py:56
Answers(pairs) == [i \in 1..Len(pairs) |-> pairs[i].a]

(***************************************************************************)
(* TfidfVectorizer with its defaults (lowercase=True,                      *)
(* token_pattern=r"(?u)\b\w\w+\b", smooth_idf=True, norm="l2"),            *)
(* main.py:57-58 and main.py:69.                                           *)
(***************************************************************************)
\* the characters \w matches
WordChars == Range(LowerLetters) \cup Range(UpperLetters) \cup Digits \cup {"_"}

\* \w for one character
IsWord(c) == c \in WordChars

\* positions where a maximal run of word characters starts
RunStarts(s) ==
    {i \in 1..Len(s) : IsWord(s[i]) /\ (i = 1 \/ ~IsWord(s[i - 1]))}

\* last position of the run of word characters that starts at i
RunEnd(s, i) ==
    SetMax({j \in i..Len(s) : \A k \in i..j : IsWord(s[k])})

\* the analyzer: lower-case, then every run of two or more word characters
TokenStarts(s) == {i \in RunStarts(s) : RunEnd(s, i) > i}

TokenAt(s, i) == SubSeq(Lower(s), i, RunEnd(s, i))

Tokens(s) == {TokenAt(s, i) : i \in TokenStarts(s)}

\* term frequency of token t in document s
Tf(s, t) == Cardinality({i \in TokenStarts(s) : TokenAt(s, i) = t})

\* the vocabulary fit() learns from the documents
Vocabulary(docs) == UNION {Tokens(docs[i]) : i \in 1..Len(docs)}

\* document frequency of token t
Df(docs, t) == Cardinality({i \in 1..Len(docs) : Tf(docs[i], t) > 0})

\* smooth idf, ln((1 + n) / (1 + df)) + 1, in tenths (rounded), for n documents
\* of which df hold the term: IdfTable[n][df]
IdfTable ==
    << <<10>>,
       <<14, 10>>,
       <<17, 13, 10>>,
       <<19, 15, 12, 10>>,
       <<21, 17, 14, 12, 10>> >>

Idf(n, df) == IdfTable[n][df]

\* fit() raises ValueError("empty vocabulary; ...") when no document holds a token
\* faulty variant: fit() accepts an empty vocabulary
FitRaisesMutant(docs) == FALSE

FitRaises(docs) == Vocabulary(docs) = {}

\* TfidfVectorizer().fit(docs), for a non-empty vocabulary
Fit(docs) ==
    LET voc == Vocabulary(docs)
    IN  [vocabulary |-> voc,
         idf |-> [t \in voc |-> Idf(Len(docs), Df(docs, t))]]

\* one row of vectorizer.transform: tf * idf over the vocabulary; tokens outside
\* the vocabulary are ignored.  The row is kept before l2 normalisation: every
\* use of it below is a cosine, which normalises again (main.py:70).
TransformOne(vec, doc) == [t \in vec.vocabulary |-> Tf(doc, t) * vec.idf[t]]

\* vectorizer.transform(docs)
Transform(vec, docs) == [i \in 1..Len(docs) |-> TransformOne(vec, docs[i])]

(***************************************************************************)
(* cosine_similarity and argmax, main.py:70-71.  A similarity is kept as   *)
(* the exact fraction <<num, den>> of its square (all weights are >= 0, so *)
(* squaring keeps the order).                                              *)
(***************************************************************************)
RECURSIVE SumOver(_, _)
SumOver(f, S) ==
    IF S = {} THEN 0
    ELSE LET x == CHOOSE y \in S : TRUE IN f[x] + SumOver(f, S \ {x})

Dot(u, v) == SumOver([t \in DOMAIN u |-> u[t] * v[t]], DOMAIN u)

\* faulty variant: the dot product without normalisation
CosineSqMutant(u, v) == <<Dot(u, v) * Dot(u, v), 1>>

\* cosine of u and v, squared; a zero vector has similarity 0 with everything
CosineSq(u, v) ==
    LET d == Dot(u, v)
        n == Dot(u, u) * Dot(v, v)
    IN  IF n = 0 THEN <<0, 1>> ELSE <<d * d, n>>

\* cosine_similarity(user_vector, question_vectors)[0]
Similarities(userVector, vectors) ==
    [i \in 1..Len(vectors) |-> CosineSq(userVector, vectors[i])]

RECURSIVE FracLess(_, _, _, _)
\* a/b < c/d for a, c >= 0 and b, d > 0, by continued fractions (no products)
FracLess(a, b, c, d) ==
    IF a \div b # c \div d THEN a \div b < c \div d
    ELSE IF c % d = 0 THEN FALSE
    ELSE IF a % b = 0 THEN TRUE
    ELSE FracLess(d, c % d, b, a % b)

Less(x, y) == FracLess(x[1], x[2], y[1], y[2])

\* faulty variant: the last maximal element wins
RECURSIVE ArgMaxLastScan(_, _, _)
ArgMaxLastScan(sims, i, best) ==
    IF i > Len(sims) THEN best
    ELSE ArgMaxLastScan(sims, i + 1, IF Less(sims[i], sims[best]) THEN best ELSE i)

ArgMaxLast(sims) == ArgMaxLastScan(sims, 2, 1) - 1

RECURSIVE ArgMaxScan(_, _, _)
\* numpy's linear scan: a later element replaces the best only when strictly greater
ArgMaxScan(sims, i, best) ==
    IF i > Len(sims) THEN best
    ELSE ArgMaxScan(sims, i + 1, IF Less(sims[best], sims[i]) THEN i ELSE best)

\* int(similarities.argmax()): 0-based
ArgMax(sims) == ArgMaxScan(sims, 2, 1) - 1

(***************************************************************************)
(* chat(), main.py:61-115: the pure parts.                                 *)
(***************************************************************************)
\* faulty variant: the credential check never rejects
CredentialsMissingMutant(c) == FALSE

\* main.py:63: boto3.Session().get_credentials() is None
CredentialsMissing(c) == c = "none"

\* faulty variant: the first message is the query
UserMsgMutant(messages) == Strip(messages[1].content)

\* main.py:67: chat_req.messages[-1].content.strip(), for a non-empty list
UserMsg(messages) == Strip(messages[Len(messages)].content)

\* main.py:69-71: the index of the entry chat() selects for user_msg
BestIdx(vec, vectors, userMsg) ==
    ArgMax(Similarities(TransformOne(vec, userMsg), vectors))

\* main.py:76-81: the fixed part of the f-string, up to "FAQ:\n", as one symbol
SystemPreamble ==
    <<"You are Zendawa Assistant, ... here's the most relevant information from Zendawa's FAQ:\n">>

\* main.py:76-82
SystemPrompt(q, a) ==
    SystemPreamble \o <<"Q", ":", " ">> \o q \o <<"\n", "A", ":", " ">> \o a

\* faulty variant: only the last message is forwarded
BedrockMessagesMutant(prompt, messages) ==
    <<[role |-> "system", content |-> <<[text |-> prompt]>>]>>
    \o <<[role |-> messages[Len(messages)].role,
          content |-> <<[text |-> messages[Len(messages)].content]>>]>>

\* main.py:84-92
BedrockMessages(prompt, messages) ==
    <<[role |-> "system", content |-> <<[text |-> prompt]>>]>>
    \o [i \in 1..Len(messages) |->
           [role |-> messages[i].role, content |-> <<[text |-> messages[i].content]>>]]

(***************************************************************************)
(* What bedrock_client.invoke_model can do, and reply extraction,          *)
(* main.py:103-115.  A response either raises or carries a body; a body    *)
(* is either not JSON or a JSON value, tagged by its type.                 *)
(***************************************************************************)
JNull == [t |-> "null"]

JNum == [t |-> "num"]

JStr(s) == [t |-> "str", s |-> s]

JList(items) == [t |-> "list", items |-> items]

JObj(fields) == [t |-> "obj", fields |-> fields]

KeyContent == <<"c", "o", "n", "t", "e", "n", "t">>

KeyText == <<"t", "e", "x", "t">>

KeyType == <<"t", "y", "p", "e">>

Raises == [kind |-> "raise", json |-> <<>>]

NotJson == [kind |-> "body", json |-> <<>>]

Body(v) == [kind |-> "body", json |-> <<v>>]

\* main.py:105-106: invoke_model raises, or json.loads raises
BodyRaises(resp) == resp.kind = "raise" \/ resp.json = <<>>

\* main.py:108: response_body.get("content", []) raises on anything but a dict
GetContentRaises(body) == body.t # "obj"

GetContent(body) ==
    IF KeyContent \in DOMAIN body.fields THEN body.fields[KeyContent] ELSE JList(<<>>)

\* main.py:108: "for block in <content>" raises on None and on a number
IterRaises(content) == content.t \in {"null", "num"}

\* what the iteration yields: list items, the characters of a str, the keys of a dict
IterItems(content) ==
    CASE content.t = "list" -> content.items
      [] content.t = "str" -> [i \in 1..Len(content.s) |-> JStr(<<content.s[i]>>)]
      [] content.t = "obj" ->
            LET RECURSIVE Keys(_)
                Keys(S) == IF S = {} THEN <<>>
                           ELSE LET k == CHOOSE x \in S : TRUE
                                IN  <<JStr(k)>> \o Keys(S \ {k})
            IN  Keys(DOMAIN content.fields)

\* main.py:108: '"text" in block' raises on None and on a number
InRaises(block) == block.t \in {"null", "num"}

\* '"text" in block': a key of a dict, a substring of a str, an item of a list
HasText(block) ==
    CASE block.t = "obj" -> KeyText \in DOMAIN block.fields
      [] block.t = "str" -> Find(block.s, KeyText) # 0
      [] block.t = "list" ->
            \E i \in 1..Len(block.items) :
                block.items[i].t = "str" /\ block.items[i].s = KeyText
      [] OTHER -> FALSE

\* block["text"] raises on a str and on a list
SubscriptRaises(block) == block.t # "obj"

\* main.py:108: the list comprehension raises
ReplyBlocksRaise(items) ==
    \E i \in 1..Len(items) :
        InRaises(items[i]) \/ (HasText(items[i]) /\ SubscriptRaises(items[i]))

\* main.py:108: reply_blocks, as JSON values
ReplyBlocks(items) ==
    LET picked == SelectSeq(items, HasText)
    IN  [i \in 1..Len(picked) |-> picked[i].fields[KeyText]]

\* main.py:109: "".join raises on an item that is not a str
JoinRaises(blocks) == \E i \in 1..Len(blocks) : blocks[i].t # "str"

RECURSIVE Concat(_)
Concat(blocks) ==
    IF blocks = <<>> THEN <<>> ELSE Head(blocks).s \o Concat(Tail(blocks))

NoInfo ==
    <<"S", "o", "r", "r", "y", ",", " ", "I", " ", "d", "o", "n", "'", "t", " ",
      "h", "a", "v", "e", " ", "t", "h", "a", "t", " ", "i", "n", "f", "o", ".">>

TryAgain ==
    <<"S", "o", "r", "r", "y", ",", " ", "I", " ", "c", "o", "u", "l", "d", " ",
      "n", "o", "t", " ", "r", "e", "t", "r", "i", "e", "v", "e", " ", "a", " ",
      "r", "e", "s", "p", "o", "n", "s", "e", ".", " ", "P", "l", "e", "a", "s",
      "e", " ", "t", "r", "y", " ", "a", "g", "a", "i", "n", " ", "l", "a", "t",
      "e", "r", ".">>

\* some statement of the try block raises (main.py:105-109)
TryRaises(resp) ==
    \/ BodyRaises(resp)
    \/ GetContentRaises(resp.json[1])
    \/ IterRaises(GetContent(resp.json[1]))
    \/ ReplyBlocksRaise(IterItems(GetContent(resp.json[1])))
    \/ JoinRaises(ReplyBlocks(IterItems(GetContent(resp.json[1]))))

\* main.py:109: "".join(reply_blocks).strip(), when nothing raised
JoinedText(resp) == Strip(Concat(ReplyBlocks(IterItems(GetContent(resp.json[1])))))

\* faulty variant: no fallback for an empty text
ReplyTextMutant(resp) ==
    IF TryRaises(resp) THEN TryAgain ELSE JoinedText(resp)

\* main.py:103-115: the reply chat() returns for a gateway response
ReplyText(resp) ==
    IF TryRaises(resp) THEN TryAgain
    ELSE IF JoinedText(resp) = <<>> THEN NoInfo
    ELSE JoinedText(resp)

(***************************************************************************)
(* Module import, main.py:43-58.                                           *)
(***************************************************************************)
\* open() raises on a missing or unreadable file; an empty corpus, or one whose
\* questions hold no token, makes fit() raise.  Either way the import fails and
\* the application is never served.
Startup ==
    /\ pc = "import"
    /\ IF file = <<>>
       THEN /\ pc' = "failed"
            /\ UNCHANGED <<faq_pairs, questions, answers, vectorizer, question_vectors>>
       ELSE LET pairs == ParsePairs(RawFaqBlocks(file[1]))
                qs == Questions(pairs)
            IN  /\ faq_pairs' = pairs
                /\ questions' = qs
                /\ answers' = Answers(pairs)
                /\ IF FitRaises(qs)
                   THEN /\ pc' = "failed"
                        /\ UNCHANGED <<vectorizer, question_vectors>>
                   ELSE /\ vectorizer' = <<Fit(qs)>>
                        /\ question_vectors' = Transform(Fit(qs), qs)
                        /\ pc' = "serving"
    /\ UNCHANGED <<file, credentials, reqs>>

\* the environment: credentials appear or disappear (env, profile, IAM role)
CredentialsChange ==
    /\ credentials' = IF credentials = "none" THEN "present" ELSE "none"
    /\ UNCHANGED <<file, pc, faq_pairs, index, reqs>>

(***************************************************************************)
(* chat(), main.py:60-115, one action per group of statements.  The event  *)
(* loop runs a request without suspension; the steps of different requests *)
(* are interleaved here all the same, which only adds behaviours.          *)
(***************************************************************************)
Reqs == 1..MaxReq

IdleReq ==
    [pc |-> "idle", messages |-> <<>>, creds |-> "unchecked", user_msg |-> <<>>,
     best_idx |-> -1, bedrock_messages |-> <<>>, invoked |-> FALSE,
     response |-> <<>>, status |-> 0, detail |-> "", reply |-> <<>>]

\* a validated ChatRequest reaches the handler
Receive(r, messages) ==
    /\ pc = "serving"
    /\ reqs[r].pc = "idle"
    /\ reqs' = [reqs EXCEPT ![r].pc = "received", ![r].messages = messages]
    /\ UNCHANGED <<file, pc, faq_pairs, index, credentials>>

\* main.py:63-64
CheckCredentials(r) ==
    /\ reqs[r].pc = "received"
    /\ reqs' = [reqs EXCEPT ![r] =
                   IF CredentialsMissing(credentials)
                   THEN [@ EXCEPT !.pc = "done", !.creds = credentials, !.status = 500,
                                  !.detail = "Missing AWS credentials for Bedrock API."]
                   ELSE [@ EXCEPT !.pc = "checked", !.creds = credentials]]
    /\ UNCHANGED <<file, pc, faq_pairs, index, credentials>>

\* faulty variant: retrieval refits the vectorizer on the questions and the query
RetrieveRefit(r) ==
    /\ reqs[r].pc = "checked"
    /\ reqs[r].messages # <<>>
    /\ LET msg == UserMsg(reqs[r].messages)
           docs == Append(questions, msg)
       IN  /\ ~FitRaises(docs)
           /\ vectorizer' = <<Fit(docs)>>
           /\ question_vectors' = Transform(Fit(docs), questions)
           /\ reqs' = [reqs EXCEPT ![r].pc = "retrieved", ![r].user_msg = msg,
                          ![r].best_idx =
                              BestIdx(Fit(docs), Transform(Fit(docs), questions), msg)]
    /\ UNCHANGED <<file, pc, faq_pairs, questions, answers, credentials>>

\* main.py:67-73; messages[-1] raises IndexError on an empty history, which the
\* server answers with 500 Internal Server Error
Retrieve(r) ==
    /\ reqs[r].pc = "checked"
    /\ reqs' = [reqs EXCEPT ![r] =
                   IF reqs[r].messages = <<>>
                   THEN [@ EXCEPT !.pc = "done", !.status = 500,
                                  !.detail = "Internal Server Error"]
                   ELSE [@ EXCEPT !.pc = "retrieved",
                                  !.user_msg = UserMsg(reqs[r].messages),
                                  !.best_idx = BestIdx(vectorizer[1], question_vectors,
                                                       UserMsg(reqs[r].messages))]]
    /\ UNCHANGED <<file, pc, faq_pairs, index, credentials>>

\* main.py:72-101
Compose(r) ==
    /\ reqs[r].pc = "retrieved"
    /\ LET matched_question == questions[reqs[r].best_idx + 1]
           matched_answer == answers[reqs[r].best_idx + 1]
       IN  reqs' = [reqs EXCEPT ![r].pc = "composed",
                       ![r].bedrock_messages =
                           BedrockMessages(SystemPrompt(matched_question, matched_answer),
                                           reqs[r].messages)]
    /\ UNCHANGED <<file, pc, faq_pairs, index, credentials>>

\* main.py:105: the call is made and the gateway answers with resp
InvokeModel(r, resp) ==
    /\ reqs[r].pc = "composed"
    /\ reqs' = [reqs EXCEPT ![r].pc = "responded", ![r].invoked = TRUE,
                   ![r].response = <<resp>>]
    /\ UNCHANGED <<file, pc, faq_pairs, index, credentials>>

\* main.py:106-115
Reply(r) ==
    /\ reqs[r].pc = "responded"
    /\ reqs' = [reqs EXCEPT ![r].pc = "done", ![r].status = 200,
                   ![r].reply = <<ReplyText(reqs[r].response[1])>>]
    /\ UNCHANGED <<file, pc, faq_pairs, index, credentials>>

(***************************************************************************)
(* Inputs: corpus files, caller histories, gateway responses.              *)
(***************************************************************************)
QAbCd == <<"Q", ":", " ", "a", "b", " ", "c", "d">>

QLowerAb == <<"q", ":", " ", "a", "b">>

QNoDelimiter == <<"Q", ":", "a", "b", "c">>

QBlank == <<"Q", ":", " ", " ">>

QMark == <<"Q", ":", " ", "?">>

QCdAb == <<"Q", ":", " ", "C", "d", " ", "a", "b">>

QAbAb == <<"Q", ":", " ", "a", "b", ",", " ", "A", "B", "?">>

AYes == <<"A", ":", " ", "y", "e", "s">>

ALowerNo == <<"a", ":", " ", "n", "o">>

ANoDelimiter == <<"A", ":", "o", "k">>

ABlank == <<"A", ":", " ", " ">>

Junk == <<"z", "z">>

\* the blocks corpus files are made of: well-formed ones, a repeated question,
\* a question without a token, prefixes without a delimiter, whitespace-only
\* lines, a missing line, several Q:/A: lines
CorpusBlocks ==
    { Join(<<QAbCd, AYes>>, NL),
      Join(<<QLowerAb, ALowerNo>>, NL),
      Join(<<QAbCd, ALowerNo>>, NL),
      Join(<<QMark, AYes>>, NL),
      Join(<<QNoDelimiter, ANoDelimiter>>, NL),
      Join(<<QBlank, AYes>>, NL),
      Join(<<ABlank, QLowerAb>>, NL),
      Join(<<QAbCd>>, NL),
      Join(<<AYes, QCdAb>>, NL),
      Join(<<QAbAb, ALowerNo>>, NL),
      Join(<<Junk, QLowerAb, QAbCd, ALowerNo, AYes>>, NL) }

\* a file of the given blocks, separated by blank lines, with a final newline
FileOf(blocks) == <<Join(blocks, BlankLine) \o NL>>

MissingFile == <<>>

CorpusFiles ==
    {MissingFile} \cup
    {FileOf(bs) : bs \in UNION {[1..k -> CorpusBlocks] : k \in 0..MaxBlocks}}

\* two fixed corpora for the request-side specifications
SmallFiles ==
    { FileOf(<<Join(<<QAbCd, AYes>>, NL), Join(<<QLowerAb, ALowerNo>>, NL)>>),
      FileOf(<<Join(<<QMark, AYes>>, NL), Join(<<QAbCd, ALowerNo>>, NL)>>) }

\* last-message contents besides the corpus's own questions: out of vocabulary,
\* empty after strip, in vocabulary, mixed, repeated token
QueryPool ==
    { <<"z", "z">>,
      <<" ", " ">>,
      <<"a", "b">>,
      <<" ", "c", "d", " ">>,
      <<"a", "b", " ", "z", "z">>,
      <<"c", "d", " ", "c", "d", " ", "a", "b">> }

Msg(role, content) == [role |-> role, content |-> content]

MessagePool ==
    { Msg("user", <<"a", "b">>), Msg("user", <<" ", "c", "d", " ">>),
      Msg("assistant", <<"a", "b">>), Msg("assistant", <<"z", "z">>),
      Msg("system", <<" ", "c", "d", " ">>) }

\* every history of at most MaxHist messages, the empty one included
Histories == UNION {[1..k -> MessagePool] : k \in 0..MaxHist}

\* a few histories that share or do not share their last content
FewHistories ==
    { <<>>,
      <<Msg("user", <<"a", "b">>)>>,
      <<Msg("user", <<"c", "d">>), Msg("assistant", <<"a", "b">>)>>,
      <<Msg("assistant", <<"a", "b">>), Msg("user", <<"c", "d">>)>>,
      <<Msg("user", <<"c", "d">>)>> }

Text(s) == JObj([k \in {KeyType, KeyText} |-> IF k = KeyText THEN JStr(s) ELSE JStr(KeyText)])

Responses ==
    { Raises,
      NotJson,
      Body(JNull),
      Body(JList(<<>>)),
      Body(JStr(KeyText)),
      Body(JObj([k \in {KeyType} |-> JStr(KeyType)])),
      Body(JObj([k \in {KeyContent} |-> JNull])),
      Body(JObj([k \in {KeyContent} |-> JNum])),
      Body(JObj([k \in {KeyContent} |-> JStr(KeyText)])),
      Body(JObj([k \in {KeyContent} |-> JObj([j \in {KeyType} |-> JNull])])),
      Body(JObj([k \in {KeyContent} |-> JObj([j \in {KeyText} |-> JNull])])),
      Body(JObj([k \in {KeyContent} |-> JList(<<>>)])),
      Body(JObj([k \in {KeyContent} |-> JList(<<JNum>>)])),
      Body(JObj([k \in {KeyContent} |-> JList(<<JStr(KeyText)>>)])),
      Body(JObj([k \in {KeyContent} |-> JList(<<JStr(KeyType)>>)])),
      Body(JObj([k \in {KeyContent} |-> JList(<<JList(<<JStr(KeyText)>>)>>)])),
      Body(JObj([k \in {KeyContent} |-> JList(<<JObj([j \in {KeyType} |-> JStr(KeyType)])>>)])),
      Body(JObj([k \in {KeyContent} |-> JList(<<JObj([j \in {KeyText} |-> JNum])>>)])),
      Body(JObj([k \in {KeyContent} |-> JList(<<Text(<<" ", " ">>)>>)])),
      Body(JObj([k \in {KeyContent} |-> JList(<<Text(<<>>)>>)])),
      Body(JObj([k \in {KeyContent} |-> JList(<<Text(<<"h", "i">>)>>)])),
      Body(JObj([k \in {KeyContent} |->
                    JList(<<Text(<<" ", "o", "k", " ">>), Text(<<"h", "i">>)>>)])) }

FewResponses ==
    { Raises,
      Body(JObj([k \in {KeyContent} |-> JList(<<>>)])),
      Body(JObj([k \in {KeyContent} |-> JList(<<Text(<<"h", "i">>)>>)])) }

(***************************************************************************)
(* Specifications.                                                         *)
(***************************************************************************)
InitWith(files) ==
    /\ file \in files
    /\ pc = "import"
    /\ faq_pairs = <<>>
    /\ questions = <<>>
    /\ answers = <<>>
    /\ vectorizer = <<>>
    /\ question_vectors = <<>>
    /\ credentials \in {"none", "present"}
    /\ reqs = [r \in Reqs |-> IdleReq]

\* Spec: every corpus file of at most MaxBlocks blocks; one request whose
\* history is a single user message
Init == InitWith(CorpusFiles)

Next ==
    \/ Startup
    \/ CredentialsChange
    \/ \E c \in QueryPool \cup Range(questions) : Receive(1, <<Msg("user", c)>>)
    \/ CheckCredentials(1)
    \/ Retrieve(1)
    \/ Compose(1)
    \/ \E resp \in FewResponses : InvokeModel(1, resp)
    \/ Reply(1)

Spec == Init /\ [][Next]_vars

\* SpecRequest: one request, every history of at most MaxHist messages, every
\* gateway response
InitRequest == InitWith(SmallFiles)

NextRequest ==
    \/ Startup
    \/ CredentialsChange
    \/ \E h \in Histories : Receive(1, h)
    \/ CheckCredentials(1)
    \/ Retrieve(1)
    \/ Compose(1)
    \/ \E resp \in Responses : InvokeModel(1, resp)
    \/ Reply(1)

SpecRequest == InitRequest /\ [][NextRequest]_vars

\* SpecChat: MaxReq requests in flight, their steps interleaved
InitChat == InitWith(SmallFiles \cup {MissingFile})

NextChat ==
    \/ Startup
    \/ CredentialsChange
    \/ \E r \in Reqs, h \in FewHistories : Receive(r, h)
    \/ \E r \in Reqs : CheckCredentials(r)
    \/ \E r \in Reqs : Retrieve(r)
    \/ \E r \in Reqs : Compose(r)
    \/ \E r \in Reqs, resp \in FewResponses : InvokeModel(r, resp)
    \/ \E r \in Reqs : Reply(r)

SpecChat == InitChat /\ [][NextChat]_vars

(***************************************************************************)
(* Properties.                                                             *)
(***************************************************************************)
\* request r has run main.py:67-73 (retrieval) without raising
Retrieved(r) == reqs[r].best_idx >= 0

\* request r has run main.py:84-92 (composition)
Composed(r) == reqs[r].bedrock_messages # <<>>

LastContent(r) == reqs[r].messages[Len(reqs[r].messages)].content

\* the similarities chat() computed for request r, recomputed from its user_msg
SimsOf(r) ==
    Similarities(TransformOne(vectorizer[1], reqs[r].user_msg), question_vectors)

IsOne(x) == x[1] = x[2]

IsZero(x) == x[1] = 0

\* C1: for every history that reaches composition, bedrock_messages is the
\* system message followed by the caller's messages, roles and contents
\* unchanged and in order: length N+1, element 0 of role "system"; and no step
\* of chat changes the messages the caller sent.
C1_PromptOrdering ==
    /\ [](\A r \in Reqs :
              Composed(r) =>
                  LET out == reqs[r].bedrock_messages
                      msgs == reqs[r].messages
                  IN  /\ Len(out) = Len(msgs) + 1
                      /\ out[1].role = "system"
                      /\ \A i \in 1..Len(msgs) :
                             /\ out[i + 1].role = msgs[i].role
                             /\ out[i + 1].content = <<[text |-> msgs[i].content]>>)
    /\ [][\A r \in Reqs :
              reqs[r].pc # "idle" => reqs'[r].messages = reqs[r].messages]_vars

\* a composed request whose history has two messages, one of them of role system
C1_Witness ==
    \E r \in Reqs :
        /\ Composed(r)
        /\ Len(reqs[r].messages) >= 2
        /\ \E i \in 1..Len(reqs[r].messages) : reqs[r].messages[i].role = "system"
        /\ reqs[r].messages[1] # reqs[r].messages[2]

\* C2 as claimed: a request whose last content is the question of entry i
\* selects entry i, with similarity 1, for every entry i of the corpus; stated
\* for the corpora whose entries all have a non-empty question and answer.
C2_RoundTripEveryEntry ==
    \A r \in Reqs :
        (Retrieved(r) /\ \A k \in 1..Len(faq_pairs) :
                             faq_pairs[k].q # <<>> /\ faq_pairs[k].a # <<>>) =>
            \A i \in 1..Len(questions) :
                LastContent(r) = questions[i] =>
                    /\ reqs[r].best_idx = i - 1
                    /\ IsOne(SimsOf(r)[i])

\* questions p and q hold the same tokens in the same proportions
SameProportions(p, q) ==
    /\ Tokens(p) = Tokens(q)
    /\ \A s \in Tokens(p), t \in Tokens(p) : Tf(p, s) * Tf(q, t) = Tf(p, t) * Tf(q, s)

\* C2 amended: a request whose last content is the question of entry i selects,
\* when that question holds a token, the lowest-index entry whose question has
\* the same tokens in the same proportions (entry i itself when no earlier
\* entry has), with similarity 1; when the question holds no token every
\* similarity is 0 and entry 0 is selected.
C2_RoundTrip ==
    \A r \in Reqs :
        Retrieved(r) =>
            \A i \in 1..Len(questions) :
                LastContent(r) = questions[i] =>
                    LET sims == SimsOf(r)
                    IN  IF Tokens(questions[i]) # {}
                        THEN /\ reqs[r].best_idx + 1 =
                                    SetMin({j \in 1..i :
                                               SameProportions(questions[j], questions[i])})
                             /\ IsOne(sims[reqs[r].best_idx + 1])
                        ELSE /\ reqs[r].best_idx = 0
                             /\ \A j \in 1..Len(questions) : IsZero(sims[j])

\* the question of the second entry is asked and the second entry is selected
C2_Witness ==
    \E r \in Reqs :
        /\ Retrieved(r)
        /\ Len(questions) >= 2
        /\ LastContent(r) = questions[2]
        /\ reqs[r].best_idx = 1

\* C3: the entry selected is the lowest-index one among those of maximal
\* similarity; a query without a token of the vocabulary selects entry 0; a
\* non-empty history never ends in an unhandled error.
C3_TieBreak ==
    \A r \in Reqs :
        /\ Retrieved(r) =>
               LET sims == SimsOf(r)
                   b == reqs[r].best_idx + 1
               IN  /\ b \in 1..Len(questions)
                   /\ \A j \in 1..Len(sims) : ~Less(sims[b], sims[j])
                   /\ \A j \in 1..(b - 1) : Less(sims[j], sims[b])
                   /\ (Tokens(reqs[r].user_msg) \cap vectorizer[1].vocabulary = {}
                          => reqs[r].best_idx = 0)
        /\ reqs[r].detail = "Internal Server Error" => reqs[r].messages = <<>>

\* two entries tie at the maximal, positive, similarity and the first is selected
C3_Witness ==
    \E r \in Reqs :
        /\ Retrieved(r)
        /\ \E j \in 1..Len(questions) :
               /\ j > reqs[r].best_idx + 1
               /\ SimsOf(r)[j][1] > 0
               /\ ~Less(SimsOf(r)[j], SimsOf(r)[reqs[r].best_idx + 1])

\* C4 as claimed: once the loader has run, every pair of faq_pairs has a
\* non-empty question and a non-empty answer.
C4_NonEmptyEntries ==
    pc # "import" =>
        \A i \in 1..Len(faq_pairs) : faq_pairs[i].q # <<>> /\ faq_pairs[i].a # <<>>

\* the first line of the block that begins, case-insensitively, with prefix p
PrefixedLine(block, p) ==
    LET lines == BlockLines(block)
    IN  lines[SetMin({i \in 1..Len(lines) : StartsWith(Lower(lines[i]), p)})]

\* the blocks of the file that contributed an entry, in order
ContributingBlocks ==
    SelectSeq(RawFaqBlocks(file[1]), LAMBDA b : BlockPairs(b) # <<>>)

\* C5 as claimed: the stored question and answer are the text after the
\* 2-character prefix, trimmed, whether or not a delimiter follows the colon.
C5_VerbatimAfterPrefix ==
    (pc # "import" /\ file # <<>>) =>
        \A i \in 1..Len(faq_pairs) :
            /\ faq_pairs[i].q =
                   Strip(SliceFrom(PrefixedLine(ContributingBlocks[i], <<"q", ":">>), 2))
            /\ faq_pairs[i].a =
                   Strip(SliceFrom(PrefixedLine(ContributingBlocks[i], <<"a", ":">>), 2))

\* C6: invoke_model is called only for a request whose credential check
\* passed; a request that found no credentials is rejected with 500, is never
\* invoked and returns no reply.
C6_CredentialGate ==
    \A r \in Reqs :
        /\ reqs[r].invoked => reqs[r].creds = "present"
        /\ reqs[r].creds = "none" =>
               /\ reqs[r].pc = "done"
               /\ reqs[r].status = 500
               /\ reqs[r].reply = <<>>
               /\ ~reqs[r].invoked
               /\ reqs[r].response = <<>>

\* a request was rejected while another one was served by the gateway
C6_Witness ==
    \E r, q \in Reqs :
        /\ reqs[r].creds = "none" /\ reqs[r].pc = "done"
        /\ reqs[q].invoked

\* C7: a request that was composed and got its gateway outcome returns 200
\* with a non-empty reply: the generated text when there is some, one of the
\* two fixed fallback strings otherwise.
C7_GatewayRecovery ==
    \A r \in Reqs :
        (reqs[r].pc = "done" /\ reqs[r].invoked) =>
            LET resp == reqs[r].response[1]
            IN  /\ reqs[r].status = 200
                /\ reqs[r].detail = ""
                /\ reqs[r].reply # <<>>
                /\ reqs[r].reply[1] # <<>>
                /\ IF ~TryRaises(resp) /\ JoinedText(resp) # <<>>
                   THEN reqs[r].reply[1] = JoinedText(resp)
                   ELSE reqs[r].reply[1] \in {NoInfo, TryAgain}

\* the gateway returned content whose only text is whitespace
C7_Witness ==
    \E r \in Reqs :
        /\ reqs[r].pc = "done"
        /\ reqs[r].invoked
        /\ ~TryRaises(reqs[r].response[1])
        /\ Concat(ReplyBlocks(IterItems(GetContent(reqs[r].response[1].json[1])))) # <<>>
        /\ reqs[r].reply[1] = NoInfo

C10_IndexReadOnly ==
    /\ [](pc = "serving" =>
              /\ Len(question_vectors) = Len(questions)
              /\ Len(answers) = Len(questions))
    /\ [][pc = "serving" =>
              /\ pc' = "serving"
              /\ faq_pairs' = faq_pairs
              /\ index' = index]_vars

\* one request was rejected with 500 and another was answered with the
\* fallback after a gateway failure
C10_Witness ==
    \E r, q \in Reqs :
        /\ reqs[r].pc = "done" /\ reqs[r].status = 500
        /\ reqs[q].pc = "done" /\ reqs[q].invoked /\ reqs[q].reply = <<TryAgain>>

====
